---- MODULE Spec2Model ----
(***************************************************************************)
(* Model of the uno-core rules engine: the card model (cards.rs), the deck *)
(* (UnoDeck) and the game state with its transition try_next (lib.rs).     *)
(* Sequences are Rust Vecs: the last element of a deck is its top.  Player *)
(* numbers are 0-based as in the source, so player p's hand is             *)
(* player_hands[p + 1].                                                    *)
(***************************************************************************)
EXTENDS Integers, Sequences, FiniteSets

VARIABLES
    phase,           \* "none": no game built, "playing", "aborted": a call panicked
    main_deck,       \* UnoGameState::main_deck
    discard_deck,    \* UnoGameState::discard_deck
    player_hands,    \* UnoGameState::player_hands
    turn_direction,  \* UnoGameState::turn_direction
    current_turn,    \* UnoGameState::current_turn
    pre,             \* the game state the last call started from
    call,            \* the last call: operation, arguments and what it returned
    plays            \* number of plays try_next has accepted

vars == <<phase, main_deck, discard_deck, player_hands, turn_direction,
          current_turn, pre, call, plays>>

----------------------------------------------------------------------------
(* Bounds of the model *)

\* player counts tried: 0..MaxPlayers
MaxPlayers == 4
\* shuffles tried: seeds 0..MaxSeed
MaxSeed == 3
\* accepted plays per game
MaxPlays == 1
\* cards per hand in a restored snapshot
SnapHand == 2
\* main deck sizes of a restored snapshot: 0, 2, .. 2 * MaxMain
MaxMain == 1

\* pile sizes of the games draw_n_cards is called on directly: 0 .. MaxPile
MaxPile == 3

\* cards asked of one direct draw_n_cards call: 0 .. MaxDraw
MaxDraw == 3

\* accepted plays followed from a fresh game with standard hands
MaxFreshPlays == 2

----------------------------------------------------------------------------
(* cards.rs *)

UnoColor == <<"Red", "Blue", "Green", "Yellow">>

UnoValue == <<"Zero", "One", "Two", "Three", "Four", "Five", "Six", "Seven",
              "Eight", "Nine", "Skip", "Reverse", "Draw2">>

Card(color, value) ==
    [kind |-> "Card", color |-> color, value |-> value, draw_4 |-> FALSE]

WildPlayed(draw_4, color) ==
    [kind |-> "WildPlayed", color |-> color, value |-> "None", draw_4 |-> draw_4]

WildUnplayed(draw_4) ==
    [kind |-> "WildUnplayed", color |-> "None", value |-> "None", draw_4 |-> draw_4]

\* faulty variant: a Colored card must match in color and in value
playable_on_both(self, other_card) ==
    IF self.kind = "Card"
    THEN IF other_card.kind = "Card"
         THEN IF self.color = other_card.color /\ self.value = other_card.value
              THEN "Ok" ELSE "NoMatch"
         ELSE IF other_card.kind = "WildPlayed"
              THEN IF self.color = other_card.color THEN "Ok" ELSE "NoMatch"
              ELSE "WildUnplayed"
    ELSE IF self.kind = "WildPlayed" THEN "Ok" ELSE "WildUnplayed"

\* faulty variant: an Unplayed Wild below a Colored card is a plain mismatch
playable_on_unplayed_no_match(self, other_card) ==
    IF self.kind = "Card"
    THEN IF other_card.kind = "Card"
         THEN IF self.color = other_card.color \/ self.value = other_card.value
              THEN "Ok" ELSE "NoMatch"
         ELSE IF other_card.kind = "WildPlayed" /\ self.color = other_card.color
              THEN "Ok" ELSE "NoMatch"
    ELSE IF self.kind = "WildPlayed" THEN "Ok" ELSE "WildUnplayed"

\* the result of playable_on: "Ok", or the UnoCardMatchError
playable_on(self, other_card) ==
    IF self.kind = "Card"
    THEN IF other_card.kind = "Card"
         THEN IF self.color = other_card.color \/ self.value = other_card.value
              THEN "Ok" ELSE "NoMatch"
         ELSE IF other_card.kind = "WildPlayed"
              THEN IF self.color = other_card.color THEN "Ok" ELSE "NoMatch"
              ELSE "WildUnplayed"
    ELSE IF self.kind = "WildPlayed" THEN "Ok" ELSE "WildUnplayed"

color_permutations ==
    [k \in 1..(Len(UnoColor) * Len(UnoValue)) |->
        Card(UnoColor[((k - 1) \div Len(UnoValue)) + 1],
             UnoValue[((k - 1) % Len(UnoValue)) + 1])]

----------------------------------------------------------------------------
(* lib.rs: UnoDeck *)

PLAYER_STARTING_HAND_SIZE == 108

\* the hand size deal reserves room for: Vec::with_capacity(7)
HAND_CAPACITY == 7

\* The index thread_rng() hands to the swap at index i (0-based) of a shuffle
\* of n cards: any of 0..i.  The entropy is the seed.  seed % 8 selects one of
\* eight streams of indices and seed \div 8, written with one digit of radix
\* i + 1 per swap (the swap at n - 1 takes the lowest), is added to it, so
\* that over all seeds every sequence of indices comes out.
RECURSIVE DigitAt(_, _, _)
DigitAt(q, j, i) ==
    IF q = 0 THEN 0
    ELSE IF j = i THEN q % (j + 1)
    ELSE DigitAt(q \div (j + 1), j - 1, i)

gen_index(seed, n, i) ==
    LET r == seed % 8
        stream == ((4 * r + 6) * i * i + (2 * r + 1) * i + r) % 103
    IN  (DigitAt(seed \div 8, n - 1, i) + stream) % (i + 1)

\* slice.swap(i, j), 1-based
Swap(cards, i, j) == [cards EXCEPT ![i] = cards[j], ![j] = cards[i]]

\* the swaps of the shuffle at the 0-based indices hi, hi - 1, .., lo, in
\* that order, each with the index the random source hands out
RECURSIVE SwapsDown(_, _, _, _)
SwapsDown(cards, seed, hi, lo) ==
    IF hi < lo \/ Len(cards) = 0 THEN cards
    ELSE IF hi = lo
    THEN Swap(cards, hi + 1, gen_index(seed, Len(cards), hi) + 1)
    ELSE LET mid == (hi + lo) \div 2
         IN  SwapsDown(SwapsDown(cards, seed, hi, mid + 1), seed, mid, lo)

\* cards.shuffle(rng): for i in (1..len).rev() { swap(i, gen_index(rng, i + 1)) }.
\* With every index sequence possible, every order of the cards is.
Shuffled(cards, seed) == SwapsDown(cards, seed, Len(cards) - 1, 1)

\* faulty variant: the second color set keeps its Zero cards
keep_zero(card) == TRUE

NotZero(card) == ~(card.kind = "Card" /\ card.value = "Zero")

\* UnoDeck::new before the shuffle
NewDeckCards ==
    color_permutations
    \o SelectSeq(color_permutations, NotZero)
    \o [i \in 1..8 |-> WildUnplayed(i - 1 < 4)]

UnoDeck_new(seed) == Shuffled(NewDeckCards, seed)

Top(deck) == deck[Len(deck)]

Pop(deck) == SubSeq(deck, 1, Len(deck) - 1)

\* deal with `hand_size * players` rounds: round i (from 0) pops the top
\* card for player i % players, so the k-th card of player p is the card
\* (k - 1) * players + p below the top; NoCardsLeft when a round finds the
\* deck empty, that is when the deck holds fewer cards than there are rounds
DealN(deck, players, hand_size) ==
    LET total == hand_size * players
    IN  IF Len(deck) < total
        THEN [result |-> "NoCardsLeft", deck |-> <<>>, hands |-> <<>>]
        ELSE [result |-> "Ok",
              deck |-> SubSeq(deck, 1, Len(deck) - total),
              hands |-> [p \in 1..players |->
                           [k \in 1..hand_size |->
                              deck[Len(deck) - ((k - 1) * players + (p - 1))]]]]

deal(deck, players) == DealN(deck, players, PLAYER_STARTING_HAND_SIZE)

----------------------------------------------------------------------------
(* lib.rs: UnoGameState *)

NoCard == [kind |-> "None", color |-> "None", value |-> "None", draw_4 |-> FALSE]

Self ==
    [main_deck |-> main_deck, discard_deck |-> discard_deck,
     player_hands |-> player_hands, turn_direction |-> turn_direction,
     current_turn |-> current_turn]

NoGame ==
    [main_deck |-> <<>>, discard_deck |-> <<>>, player_hands |-> <<>>,
     turn_direction |-> "Clockwise", current_turn |-> 0]

\* UnoGameState::new on the deck UnoDeck::new returned
new(deck, players) ==
    LET dealt == deal(deck, players)
    IN  IF dealt.result # "Ok"
        THEN [result |-> dealt.result, state |-> NoGame]
        ELSE IF Len(dealt.deck) = 0
             THEN [result |-> "NoCardsLeft", state |-> NoGame]
             ELSE [result |-> "Ok",
                   state |-> [main_deck |-> Pop(dealt.deck),
                              discard_deck |-> <<Top(dealt.deck)>>,
                              player_hands |-> dealt.hands,
                              turn_direction |-> "Clockwise",
                              current_turn |-> 0]]

\* faulty variant: the discard pile is cloned into the main deck, top included
recycle_clone(s) ==
    [s EXCEPT !.main_deck = @ \o s.discard_deck,
              !.discard_deck = <<Top(s.discard_deck)>>]

\* faulty variant: the bottom card of the discard pile is the one kept
recycle_keep_bottom(s) ==
    [s EXCEPT !.main_deck = @ \o Tail(s.discard_deck),
              !.discard_deck = <<Head(s.discard_deck)>>]

\* lines 163-170: all but the top discard are appended to the main deck
recycle(s) ==
    [s EXCEPT !.main_deck = @ \o Pop(s.discard_deck),
              !.discard_deck = <<Top(s.discard_deck)>>]

\* draw_n_cards: n rounds, each popping the main deck or, when it is empty,
\* recycling the discard pile first.  panic: one of the two expect() calls
\* failed; the cards drawn so far are dropped with the frame.
RECURSIVE DrawLoop(_, _, _)
DrawLoop(s, cards, n) ==
    IF n = 0
    THEN [state |-> s, cards |-> cards, panic |-> FALSE]
    ELSE IF Len(s.main_deck) > 0
         THEN DrawLoop([s EXCEPT !.main_deck = Pop(@)],
                       Append(cards, Top(s.main_deck)), n - 1)
         ELSE IF Len(s.discard_deck) = 0
              THEN [state |-> s, cards |-> cards, panic |-> TRUE]
              ELSE LET t == recycle(s)
                   IN  IF Len(t.main_deck) = 0
                       THEN [state |-> t, cards |-> cards, panic |-> TRUE]
                       ELSE DrawLoop([t EXCEPT !.main_deck = Pop(@)],
                                     Append(cards, Top(t.main_deck)), n - 1)

draw_n_cards(s, n) == DrawLoop(s, <<>>, n)

\* player_hand.0.iter().position(|card| card == which_card), 1-based; 0 is None
position(hand, which_card) ==
    IF \E i \in 1..Len(hand) : hand[i] = which_card
    THEN CHOOSE i \in 1..Len(hand) :
            /\ hand[i] = which_card
            /\ \A j \in 1..(i - 1) : hand[j] # which_card
    ELSE 0

\* Vec::remove
remove(v, idx) == SubSeq(v, 1, idx - 1) \o SubSeq(v, idx + 1, Len(v))

Players(s) == Len(s.player_hands)

\* lines 210-211: the card leaves the hand and lands on the discard pile
take_card(s, whos_turn, card_idx) ==
    [s EXCEPT !.player_hands[whos_turn + 1] = remove(@, card_idx),
              !.discard_deck = Append(@, s.player_hands[whos_turn + 1][card_idx])]

\* UnoValue::Skip
\* faulty variant: the turn index is not wrapped
skip_no_wrap(s) == [s EXCEPT !.current_turn = s.current_turn + 2]

skip(s) == [s EXCEPT !.current_turn = (s.current_turn + 2) % Players(s)]

\* faulty variant: Reverse steps forward from Clockwise too
reverse_forward(s) ==
    IF s.turn_direction = "Clockwise"
    THEN [s EXCEPT !.current_turn = (s.current_turn + 1) % Players(s),
                   !.turn_direction = "CounterClockwise"]
    ELSE [s EXCEPT !.current_turn = (s.current_turn + 1) % Players(s),
                   !.turn_direction = "Clockwise"]

\* UnoValue::Reverse
reverse(s) ==
    IF s.turn_direction = "Clockwise"
    THEN [s EXCEPT !.current_turn = IF s.current_turn = 0
                                    THEN Players(s) - 1
                                    ELSE s.current_turn - 1,
                   !.turn_direction = "CounterClockwise"]
    ELSE [s EXCEPT !.current_turn = (s.current_turn + 1) % Players(s),
                   !.turn_direction = "Clockwise"]

\* faulty variant: the skip is applied before the draw, so the cards go to
\* the player two indices on
forced_draw_after_skip(s, n) ==
    LET t == [s EXCEPT !.current_turn = (s.current_turn + 2) % Players(s)]
        d == draw_n_cards(t, n)
    IN  IF d.panic
        THEN [state |-> d.state, panic |-> TRUE]
        ELSE [state |-> [d.state EXCEPT
                            !.player_hands[t.current_turn + 1] = @ \o d.cards],
              panic |-> FALSE]

\* UnoValue::Draw2 (n = 2) and a played draw-4 wild (n = 4)
forced_draw(s, n) ==
    LET t == [s EXCEPT !.current_turn = (s.current_turn + 1) % Players(s)]
        d == draw_n_cards(t, n)
    IN  IF d.panic
        THEN [state |-> d.state, panic |-> TRUE]
        ELSE [state |-> [d.state EXCEPT
                            !.player_hands[t.current_turn + 1] = @ \o d.cards,
                            !.current_turn = (t.current_turn + 1) % Players(s)],
              panic |-> FALSE]

\* faulty variant: Draw2 forces a draw of 4, as the draw-4 wild does
apply_effect_draw2_as_4(s, card) ==
    IF card.kind = "Card"
    THEN IF card.value = "Skip" THEN [state |-> skip(s), panic |-> FALSE]
         ELSE IF card.value = "Reverse" THEN [state |-> reverse(s), panic |-> FALSE]
         ELSE IF card.value = "Draw2" THEN forced_draw(s, 4)
         ELSE [state |-> s, panic |-> FALSE]
    ELSE IF card.kind = "WildPlayed"
         THEN IF card.draw_4 THEN forced_draw(s, 4)
              ELSE [state |-> s, panic |-> FALSE]
         ELSE [state |-> s, panic |-> TRUE]

\* the match on the played card, lines 213-264
apply_effect(s, card) ==
    IF card.kind = "Card"
    THEN IF card.value = "Skip" THEN [state |-> skip(s), panic |-> FALSE]
         ELSE IF card.value = "Reverse" THEN [state |-> reverse(s), panic |-> FALSE]
         ELSE IF card.value = "Draw2" THEN forced_draw(s, 2)
         ELSE [state |-> s, panic |-> FALSE]
    ELSE IF card.kind = "WildPlayed"
         THEN IF card.draw_4 THEN forced_draw(s, 4)
              ELSE [state |-> s, panic |-> FALSE]
         ELSE [state |-> s, panic |-> TRUE]

Outcome(result, match_error, s) ==
    [result |-> result, match_error |-> match_error, state |-> s]

\* faulty variant: a play by anyone but the player at current_turn is refused
try_next_turn_checked(s, whos_turn, which_card) ==
    IF Players(s) = 0
    THEN Outcome("panic", "None", s)
    ELSE IF whos_turn > Players(s) - 1 \/ whos_turn # s.current_turn
    THEN Outcome("InvalidPlayerNumber", "None", s)
    ELSE LET card_idx == position(s.player_hands[whos_turn + 1], which_card)
         IN  IF card_idx = 0
             THEN Outcome("Cheating", "None", s)
             ELSE IF Len(s.discard_deck) = 0
             THEN Outcome("panic", "None", s)
             ELSE LET playable == playable_on(which_card, Top(s.discard_deck))
                  IN  IF playable # "Ok"
                      THEN Outcome("CardNotPlayable", playable, s)
                      ELSE LET e == apply_effect(
                                        take_card(s, whos_turn, card_idx),
                                        which_card)
                           IN  Outcome(IF e.panic THEN "panic" ELSE "Ok",
                                       "None", e.state)

\* faulty variant: playable_on is consulted before the hand is searched
try_next_playable_first(s, whos_turn, which_card) ==
    IF Players(s) = 0
    THEN Outcome("panic", "None", s)
    ELSE IF whos_turn > Players(s) - 1
    THEN Outcome("InvalidPlayerNumber", "None", s)
    ELSE IF Len(s.discard_deck) = 0
    THEN Outcome("panic", "None", s)
    ELSE LET playable == playable_on(which_card, Top(s.discard_deck))
             card_idx == position(s.player_hands[whos_turn + 1], which_card)
         IN  IF playable # "Ok"
             THEN Outcome("CardNotPlayable", playable, s)
             ELSE IF card_idx = 0
             THEN Outcome("Cheating", "None", s)
             ELSE LET e == apply_effect(take_card(s, whos_turn, card_idx),
                                        which_card)
                  IN  Outcome(IF e.panic THEN "panic" ELSE "Ok",
                              "None", e.state)

\* faulty variant: the card is taken before playable_on is consulted
try_next_late_check(s, whos_turn, which_card) ==
    IF Players(s) = 0
    THEN Outcome("panic", "None", s)
    ELSE IF whos_turn > Players(s) - 1
    THEN Outcome("InvalidPlayerNumber", "None", s)
    ELSE LET card_idx == position(s.player_hands[whos_turn + 1], which_card)
         IN  IF card_idx = 0
             THEN Outcome("Cheating", "None", s)
             ELSE IF Len(s.discard_deck) = 0
             THEN Outcome("panic", "None", s)
             ELSE LET playable == playable_on(which_card, Top(s.discard_deck))
                      taken == take_card(s, whos_turn, card_idx)
                  IN  IF playable # "Ok"
                      THEN Outcome("CardNotPlayable", playable, taken)
                      ELSE LET e == apply_effect(taken, which_card)
                           IN  Outcome(IF e.panic THEN "panic" ELSE "Ok",
                                       "None", e.state)

\* try_next: result is "Ok", an UnoError, or "panic"
try_next(s, whos_turn, which_card) ==
    IF Players(s) = 0
    THEN Outcome("panic", "None", s)
    ELSE IF whos_turn > Players(s) - 1
    THEN Outcome("InvalidPlayerNumber", "None", s)
    ELSE LET card_idx == position(s.player_hands[whos_turn + 1], which_card)
         IN  IF card_idx = 0
             THEN Outcome("Cheating", "None", s)
             ELSE IF Len(s.discard_deck) = 0
             THEN Outcome("panic", "None", s)
             ELSE LET playable == playable_on(which_card, Top(s.discard_deck))
                  IN  IF playable # "Ok"
                      THEN Outcome("CardNotPlayable", playable, s)
                      ELSE LET e == apply_effect(take_card(s, whos_turn, card_idx),
                                                 which_card)
                           IN  Outcome(IF e.panic THEN "panic" ELSE "Ok",
                                       "None", e.state)

----------------------------------------------------------------------------
(* A game restored from a serialized snapshot (UnoGameState derives       *)
(* Deserialize).  The snapshots tried hold the 108 cards of a deck: hands  *)
(* of SnapHand cards dealt from a shuffled deck, a main deck of 2 m cards  *)
(* and every other card on the discard pile, where wilds lie played.  With *)
(* wilds_colored the wilds in the hands carry a chosen color too.          *)

ChosenColor(i) == UnoColor[(i % Len(UnoColor)) + 1]

Colored(deck) ==
    [i \in 1..Len(deck) |->
        IF deck[i].kind = "WildUnplayed"
        THEN WildPlayed(deck[i].draw_4, ChosenColor(i))
        ELSE deck[i]]

Snapshot(seed, players, turn, dir, m, wilds_colored) ==
    LET dealt == DealN(UnoDeck_new(seed), players, SnapHand)
        rest == dealt.deck
        cut == Len(rest) - 1 - 2 * m
    IN  [main_deck |-> SubSeq(rest, cut + 1, Len(rest) - 1),
         discard_deck |-> Colored(SubSeq(rest, 1, cut) \o <<Top(rest)>>),
         player_hands |-> [p \in 1..players |->
                              IF wilds_colored THEN Colored(dealt.hands[p])
                              ELSE dealt.hands[p]],
         turn_direction |-> dir,
         current_turn |-> turn]

----------------------------------------------------------------------------
(* The state machine *)

TurnDirection == {"Clockwise", "CounterClockwise"}

NoCall ==
    [op |-> "none", players |-> 0, whos_turn |-> 0, which_card |-> NoCard,
     other_card |-> NoCard, n |-> 0, cards |-> << >>,
     result |-> "None", match_error |-> "None"]

SetGame(s) ==
    /\ main_deck' = s.main_deck
    /\ discard_deck' = s.discard_deck
    /\ player_hands' = s.player_hands
    /\ turn_direction' = s.turn_direction
    /\ current_turn' = s.current_turn

Init ==
    /\ phase = "none"
    /\ main_deck = NoGame.main_deck
    /\ discard_deck = NoGame.discard_deck
    /\ player_hands = NoGame.player_hands
    /\ turn_direction = NoGame.turn_direction
    /\ current_turn = NoGame.current_turn
    /\ pre = NoGame
    /\ call = NoCall
    /\ plays = 0

\* UnoGameState::new(players)
New ==
    /\ phase = "none"
    /\ \E players \in 0..MaxPlayers, seed \in 0..MaxSeed :
          LET r == new(UnoDeck_new(seed), players)
          IN  /\ SetGame(r.state)
              /\ phase' = IF r.result = "Ok" THEN "playing" ELSE "none"
              /\ call' = [NoCall EXCEPT !.op = "new", !.players = players,
                                        !.result = r.result]
    /\ pre' = Self
    /\ UNCHANGED plays

\* a game deserialized from a snapshot
Restore ==
    /\ phase = "none"
    /\ \E seed \in 0..MaxSeed, players \in 1..MaxPlayers, dir \in TurnDirection,
          m \in 0..MaxMain, wilds_colored \in BOOLEAN :
          \E turn \in 0..(players - 1) :
             /\ SetGame(Snapshot(seed, players, turn, dir, m, wilds_colored))
             /\ call' = [NoCall EXCEPT !.op = "restore", !.players = players,
                                       !.result = "Ok"]
    /\ phase' = "playing"
    /\ pre' = Self
    /\ UNCHANGED plays

\* the cards a caller submits for player whos_turn: the cards of that hand,
\* the wilds of that hand in the other sub-state (played as Red, or unplayed)
\* and the top of the discard pile, which that hand need not hold
WildForms(card) ==
    IF card.kind = "WildUnplayed" THEN {WildPlayed(card.draw_4, "Red")}
    ELSE IF card.kind = "WildPlayed" THEN {WildUnplayed(card.draw_4)}
    ELSE {}

Range(seq) == {seq[i] : i \in 1..Len(seq)}

Submitted(s, whos_turn) ==
    LET hand == IF whos_turn < Players(s) THEN Range(s.player_hands[whos_turn + 1])
                ELSE {}
    IN  hand
        \cup UNION {WildForms(c) : c \in hand}
        \cup (IF Len(s.discard_deck) > 0 THEN {Top(s.discard_deck)} ELSE {})

\* UnoGameState::try_next(whos_turn, which_card), while fewer than max plays
\* were accepted
TryNextUpTo(max) ==
    /\ phase = "playing"
    /\ plays < max
    /\ \E whos_turn \in 0..Players(Self) :
          \E which_card \in Submitted(Self, whos_turn) :
             LET r == try_next(Self, whos_turn, which_card)
             IN  /\ SetGame(r.state)
                 /\ phase' = IF r.result = "panic" THEN "aborted" ELSE "playing"
                 /\ plays' = IF r.result = "Ok" THEN plays + 1 ELSE plays
                 /\ call' = [NoCall EXCEPT !.op = "try_next",
                                           !.players = Players(Self),
                                           !.whos_turn = whos_turn,
                                           !.which_card = which_card,
                                           !.result = r.result,
                                           !.match_error = r.match_error]
    /\ pre' = Self

TryNext == TryNextUpTo(MaxPlays)

Next == New \/ Restore \/ TryNext

Spec == Init /\ [][Next]_vars

\* every value of UnoCard: 52 Colored cards, 2 Unplayed and 8 Played Wilds
AllCards ==
    Range(color_permutations)
        \cup {WildUnplayed(draw_4) : draw_4 \in BOOLEAN}
        \cup {WildPlayed(draw_4, color) : draw_4 \in BOOLEAN,
                                          color \in Range(UnoColor)}

\* the two cards handed to playable_on, drawn from every card value
InitMatch ==
    /\ phase = "none"
    /\ main_deck = NoGame.main_deck
    /\ discard_deck = NoGame.discard_deck
    /\ player_hands = NoGame.player_hands
    /\ turn_direction = NoGame.turn_direction
    /\ current_turn = NoGame.current_turn
    /\ pre = NoGame
    /\ plays = 0
    /\ \E self \in AllCards, other_card \in AllCards :
          call = [NoCall EXCEPT !.which_card = self,
                                !.other_card = other_card]

\* UnoCard::playable_on(self, other_card), called on its own
PlayableOn ==
    /\ call.op = "none"
    /\ LET r == playable_on(call.which_card, call.other_card)
       IN  call' = [call EXCEPT !.op = "playable_on",
                                !.result = IF r = "Ok" THEN "Ok" ELSE "Err",
                                !.match_error = IF r = "Ok" THEN "None" ELSE r]
    /\ UNCHANGED <<phase, main_deck, discard_deck, player_hands,
                   turn_direction, current_turn, pre, plays>>

NextMatch == PlayableOn

SpecMatch == InitMatch /\ [][NextMatch]_vars

\* a deserialized one-player game with small piles: the main deck holds the
\* top m cards of a fresh deck, the discard pile the d cards below them and
\* the player every other card
InitDraw ==
    /\ phase = "playing"
    /\ \E seed \in 0..MaxSeed, m \in 0..MaxPile, d \in 0..MaxPile :
          LET deck == UnoDeck_new(seed)
              len == Len(deck)
          IN  /\ main_deck = SubSeq(deck, len - m + 1, len)
              /\ discard_deck = SubSeq(deck, len - m - d + 1, len - m)
              /\ player_hands = <<SubSeq(deck, 1, len - m - d)>>
    /\ turn_direction = "Clockwise"
    /\ current_turn = 0
    /\ pre = NoGame
    /\ call = NoCall
    /\ plays = 0

\* UnoGameState::draw_n_cards(n), called on its own; the cards it returns
\* leave the game with the caller
DrawNCards ==
    /\ phase = "playing"
    /\ \E n \in 0..MaxDraw :
          LET r == draw_n_cards(Self, n)
          IN  /\ SetGame(r.state)
              /\ phase' = IF r.panic THEN "aborted" ELSE "playing"
              /\ call' = [NoCall EXCEPT !.op = "draw_n_cards",
                                        !.players = Players(Self),
                                        !.n = n,
                                        !.cards = IF r.panic THEN << >>
                                                  ELSE r.cards,
                                        !.result = IF r.panic THEN "panic"
                                                   ELSE "Ok"]
    /\ pre' = Self
    /\ UNCHANGED plays

NextDraw == DrawNCards

SpecDraw == InitDraw /\ [][NextDraw]_vars

\* a deserialized game in the shape of a fresh one with standard hands: every
\* player holds HAND_CAPACITY cards dealt round-robin off a new deck, the next
\* card starts the discard pile, the rest is the main deck
InitFresh ==
    /\ phase = "playing"
    /\ \E seed \in 0..MaxSeed, players \in 0..MaxPlayers :
          LET dealt == DealN(UnoDeck_new(seed), players, HAND_CAPACITY)
          IN  /\ main_deck = Pop(dealt.deck)
              /\ discard_deck = <<Top(dealt.deck)>>
              /\ player_hands = dealt.hands
    /\ turn_direction = "Clockwise"
    /\ current_turn = 0
    /\ pre = NoGame
    /\ call = NoCall
    /\ plays = 0

TryNextFresh == TryNextUpTo(MaxFreshPlays)

NextFresh == TryNextFresh

SpecFresh == InitFresh /\ [][NextFresh]_vars

----------------------------------------------------------------------------
(* Properties *)

FULL_DECK_SIZE == 108

TypeOK ==
    /\ phase \in {"none", "playing", "aborted"}
    /\ turn_direction \in TurnDirection
    /\ current_turn \in Nat
    /\ plays \in 0..MaxPlays \cup 0..MaxFreshPlays

RECURSIVE SumLen(_)
SumLen(decks) ==
    IF Len(decks) = 0 THEN 0 ELSE Len(decks[1]) + SumLen(Tail(decks))

Total(s) == Len(s.main_deck) + Len(s.discard_deck) + SumLen(s.player_hands)

Count(x, deck) == Cardinality({i \in 1..Len(deck) : deck[i] = x})

SameCards(a, b) ==
    /\ Len(a) = Len(b)
    /\ \A x \in Range(a) : Count(x, a) = Count(x, b)

Accepted == call.op = "try_next" /\ call.result = "Ok"

Rejected ==
    /\ call.op = "try_next"
    /\ call.result \in {"InvalidPlayerNumber", "Cheating", "CardNotPlayable"}

\* k steps from index c in direction dir around n players
Step(c, dir, k, n) ==
    IF dir = "Clockwise" THEN (c + k) % n ELSE (c + k * n - k) % n

\* player p's hand once the accepted card has left the playing player's hand
HandBefore(p) ==
    LET hand == pre.player_hands[p + 1]
    IN  IF p = call.whos_turn THEN remove(hand, position(hand, call.which_card))
        ELSE hand

\* an accepted forced draw of k cards: the player at index current_turn + 1
\* gets exactly k cards appended, taken off the top of the main deck while it
\* lasts and out of main deck and discard pile in any case, every other hand
\* only loses the played card, and the turn ends at index current_turn + 2
ForcedDraw(k) ==
    LET n == Len(pre.player_hands)
        c == pre.current_turn
        target == (c + 1) % n
        before == HandBefore(target)
        hand == player_hands[target + 1]
        drawn == SubSeq(hand, Len(before) + 1, Len(hand))
        m == Len(pre.main_deck)
    IN  /\ Len(hand) = Len(before) + k
        /\ SubSeq(hand, 1, Len(before)) = before
        /\ SameCards(main_deck \o discard_deck \o drawn,
                     pre.main_deck \o pre.discard_deck \o <<call.which_card>>)
        /\ m >= k => /\ drawn = [i \in 1..k |-> pre.main_deck[m - i + 1]]
                     /\ main_deck = SubSeq(pre.main_deck, 1, m - k)
        /\ \A p \in 0..(n - 1) : p # target => player_hands[p + 1] = HandBefore(p)
        /\ current_turn = (c + 2) % n

\* C1: card conservation: in every game that new built or that was restored
\* from a 108-card snapshot, after any sequence of accepted and rejected
\* try_next calls, main deck, discard pile and hands hold 108 cards together.
CardConservation == phase = "playing" => Total(Self) = FULL_DECK_SIZE

\* an accepted draw-4 wild found two cards in the main deck, so the draw
\* emptied it and recycled the discard pile
RecycledDrawReached ==
    /\ Accepted
    /\ call.which_card.kind = "WildPlayed"
    /\ call.which_card.draw_4
    /\ Len(pre.main_deck) = 2
    /\ Len(discard_deck) = 1
    /\ Len(main_deck) > 0

\* C2: play atomicity: when try_next returns InvalidPlayerNumber, Cheating or
\* CardNotPlayable, decks, hands, turn and direction are what they were
\* before the call.
PlayAtomicity == Rejected => Self = pre

\* a card of the hand was refused as not matching the discard pile
NoMatchReached ==
    /\ Rejected
    /\ call.result = "CardNotPlayable"
    /\ call.match_error = "NoMatch"

\* C3: new(players) for players in 1..4 returns Ok with current_turn 0,
\* direction Clockwise, one hand of the starting hand size per player and a
\* discard pile of one card.
NewDealsEveryPlayerCount ==
    (call.op = "new" /\ call.players \in 1..4) =>
        /\ call.result = "Ok"
        /\ current_turn = 0
        /\ turn_direction = "Clockwise"
        /\ Len(player_hands) = call.players
        /\ \A p \in 1..Len(player_hands) :
              Len(player_hands[p]) = PLAYER_STARTING_HAND_SIZE
        /\ Len(discard_deck) = 1

NoEffect(card) ==
    \/ card.kind = "Card" /\ card.value \notin {"Skip", "Reverse", "Draw2"}
    \/ card.kind = "WildPlayed" /\ ~card.draw_4

\* C4: baseline advance: after an accepted card without special effect
\* current_turn is one step from its previous value in the turn direction.
BaselineAdvance ==
    (Accepted /\ NoEffect(call.which_card)) =>
        current_turn = Step(pre.current_turn, pre.turn_direction, 1,
                            Len(pre.player_hands))

\* C5: Skip: after an accepted Skip current_turn is two steps from its
\* previous value in the turn direction, and the direction is unchanged.
SkipTwoSteps ==
    (Accepted /\ call.which_card.value = "Skip") =>
        /\ current_turn = Step(pre.current_turn, pre.turn_direction, 2,
                               Len(pre.player_hands))
        /\ turn_direction = pre.turn_direction

\* C6: Reverse: after an accepted Reverse the direction is flipped; from
\* Clockwise the turn is c - 1, wrapping from 0 to n - 1, from
\* CounterClockwise it is (c + 1) mod n; only the playing player's hand
\* changes and the main deck is unchanged.
ReverseEffect ==
    (Accepted /\ call.which_card.value = "Reverse") =>
        LET n == Len(pre.player_hands)
            c == pre.current_turn
        IN  /\ turn_direction # pre.turn_direction
            /\ pre.turn_direction = "Clockwise" =>
                  current_turn = IF c = 0 THEN n - 1 ELSE c - 1
            /\ pre.turn_direction = "CounterClockwise" =>
                  current_turn = (c + 1) % n
            /\ \A p \in 0..(n - 1) :
                  p # call.whos_turn => player_hands[p + 1] = pre.player_hands[p + 1]
            /\ main_deck = pre.main_deck

\* the example of the specification: four players, Clockwise, turn 0, and a
\* Reverse leaves the turn at 3, CounterClockwise
ReverseWrapReached ==
    /\ Accepted
    /\ call.which_card.value = "Reverse"
    /\ Len(pre.player_hands) = 4
    /\ pre.turn_direction = "Clockwise"
    /\ pre.current_turn = 0
    /\ current_turn = 3
    /\ turn_direction = "CounterClockwise"

\* C7: Draw2 in a Clockwise game with current_turn = c: player (c + 1) mod n
\* gets exactly 2 cards drawn from the main deck (recycled from the discard
\* pile when it runs dry) appended to the hand, no other hand gains cards,
\* and current_turn becomes (c + 2) mod n.
Draw2Effect ==
    (Accepted /\ call.which_card.value = "Draw2"
              /\ pre.turn_direction = "Clockwise") => ForcedDraw(2)

\* a Draw2 accepted in a Clockwise game of several players whose main deck
\* was empty: both cards come out of the recycled discard pile
Draw2RecycledReached ==
    /\ Accepted
    /\ call.which_card.value = "Draw2"
    /\ pre.turn_direction = "Clockwise"
    /\ Len(pre.player_hands) > 2
    /\ Len(pre.main_deck) = 0
    /\ call.whos_turn # (pre.current_turn + 1) % Len(pre.player_hands)

\* C8: Wild Draw 4 mirrors Draw2 with 4 for 2: after an accepted played wild
\* with draw_4 the player one step after current_turn, in the turn direction,
\* has exactly 4 drawn cards appended, current_turn is two steps after its
\* previous value, and the direction is unchanged.
WildDraw4Steps ==
    (Accepted /\ call.which_card.kind = "WildPlayed" /\ call.which_card.draw_4) =>
        LET n == Len(pre.player_hands)
            target == Step(pre.current_turn, pre.turn_direction, 1, n)
            before == HandBefore(target)
            hand == player_hands[target + 1]
        IN  /\ Len(hand) = Len(before) + 4
            /\ SubSeq(hand, 1, Len(before)) = before
            /\ current_turn = Step(pre.current_turn, pre.turn_direction, 2, n)
            /\ turn_direction = pre.turn_direction

\* C9: a player whose hand holds a wild as the deck deals it (unplayed) gets
\* it accepted by submitting it played, with a color and the same draw_4; it
\* then tops the discard pile.
DealtWildPlayable ==
    (/\ call.op = "try_next"
     /\ call.whos_turn < Len(pre.player_hands)
     /\ call.which_card.kind = "WildPlayed"
     /\ WildUnplayed(call.which_card.draw_4)
            \in Range(pre.player_hands[call.whos_turn + 1])) =>
        /\ call.result = "Ok"
        /\ Top(discard_deck) = call.which_card

\* C10: no unplayed wild lies on the discard pile, the starter card included.
NoUnplayedWildOnDiscard ==
    \A i \in 1..Len(discard_deck) : discard_deck[i].kind # "WildUnplayed"

\* C11: in every game new can build, try_next with a whos_turn outside
\* [0, number of players) returns InvalidPlayerNumber.
InvalidPlayerRejected ==
    (call.op = "try_next" /\ call.whos_turn >= Len(pre.player_hands)) =>
        call.result = "InvalidPlayerNumber"

\* C12: for a valid whos_turn try_next returns Cheating exactly when the hand
\* holds no card equal to which_card, whether or not the card would be
\* playable; a card of the hand that playable_on refuses yields
\* CardNotPlayable with playable_on's error.
CheatingBeforePlayable ==
    (call.op = "try_next" /\ call.whos_turn < Len(pre.player_hands)) =>
        LET hand == pre.player_hands[call.whos_turn + 1]
            held == \E i \in 1..Len(hand) : hand[i] = call.which_card
            playable == playable_on(call.which_card, Top(pre.discard_deck))
        IN  /\ call.result = "Cheating" <=> ~held
            /\ (held /\ playable # "Ok") =>
                  /\ call.result = "CardNotPlayable"
                  /\ call.match_error = playable

\* a card that is not in the hand and would not be playable either was
\* refused as Cheating
CheatingUnplayableReached ==
    /\ call.op = "try_next"
    /\ call.result = "Cheating"
    /\ playable_on(call.which_card, Top(pre.discard_deck)) # "Ok"

\* C13: a Colored card c is playable on a top card t exactly when t is
\* Colored and shares color or value with c, or t is a Played Wild whose
\* chosen color is c's color; on any other Colored card or Played Wild the
\* answer is NoMatch.
ColoredMatchingRule ==
    (call.op = "playable_on" /\ call.which_card.kind = "Card") =>
        LET c == call.which_card
            t == call.other_card
            matches == \/ t.kind = "Card" /\ (t.color = c.color \/ t.value = c.value)
                       \/ t.kind = "WildPlayed" /\ t.color = c.color
        IN  /\ call.result = "Ok" <=> matches
            /\ (t.kind \in {"Card", "WildPlayed"} /\ ~matches) =>
                  call.match_error = "NoMatch"

\* Red Five was found playable on Blue Five: value match alone
ValueMatchReached ==
    /\ call.op = "playable_on"
    /\ call.which_card = Card("Red", "Five")
    /\ call.other_card = Card("Blue", "Five")
    /\ call.result = "Ok"

\* C14 as stated: every candidate, of any kind, fails with WildUnplayed on a
\* top card that is an Unplayed Wild.
AnyCardOnUnplayedWildFails ==
    (call.op = "playable_on" /\ call.other_card.kind = "WildUnplayed") =>
        call.match_error = "WildUnplayed"

\* C14 amended: on a top card that is an Unplayed Wild, a Colored or Unplayed
\* Wild candidate fails with WildUnplayed and a Played Wild candidate is Ok.
OnUnplayedWild ==
    (call.op = "playable_on" /\ call.other_card.kind = "WildUnplayed") =>
        IF call.which_card.kind = "WildPlayed"
        THEN call.result = "Ok"
        ELSE call.result = "Err" /\ call.match_error = "WildUnplayed"

\* a Colored card was refused on an Unplayed Wild
ColoredOnUnplayedWildReached ==
    /\ call.op = "playable_on"
    /\ call.which_card.kind = "Card"
    /\ call.other_card.kind = "WildUnplayed"
    /\ call.match_error = "WildUnplayed"

\* C15: draw_n_cards(1) on an empty main deck and a discard pile of k >= 2
\* cards returns one card, leaves the prior top card alone on the discard pile
\* and the other k - 1 cards, less the one drawn, in the main deck; whenever
\* draw_n_cards(n) returns, the top of the discard pile is what it was.
RecyclingKeepsTop ==
    call.op = "draw_n_cards" =>
        /\ (call.n = 1 /\ Len(pre.main_deck) = 0 /\ Len(pre.discard_deck) >= 2) =>
              /\ call.result = "Ok"
              /\ Len(call.cards) = 1
              /\ discard_deck = <<Top(pre.discard_deck)>>
              /\ Len(main_deck) = Len(pre.discard_deck) - 2
              /\ SameCards(main_deck \o call.cards, Pop(pre.discard_deck))
        /\ call.result = "Ok" =>
              /\ Len(discard_deck) = 0 <=> Len(pre.discard_deck) = 0
              /\ Len(discard_deck) > 0 =>
                    Top(discard_deck) = Top(pre.discard_deck)

\* one card was drawn from a recycled discard pile of three
RecycledThreeReached ==
    /\ call.op = "draw_n_cards"
    /\ call.n = 1
    /\ Len(pre.main_deck) = 0
    /\ Len(pre.discard_deck) = 3
    /\ call.result = "Ok"

\* C17: draw_n_cards(n) returns n cards or aborts, and it aborts only with
\* the main deck and the discard pile both empty.
DrawAbortsOnlyWhenEmpty ==
    call.op = "draw_n_cards" =>
        /\ call.result = "Ok" => Len(call.cards) = call.n
        /\ call.result = "panic" =>
              Len(main_deck) = 0 /\ Len(discard_deck) = 0

\* the standard deck: per color one Zero and two of every other value, four
\* Unplayed Wilds and four Unplayed Wild Draw 4s
Composition(deck) ==
    /\ Len(deck) = FULL_DECK_SIZE
    /\ \A color \in Range(UnoColor), value \in Range(UnoValue) :
          Count(Card(color, value), deck) = IF value = "Zero" THEN 1 ELSE 2
    /\ Cardinality({i \in 1..Len(deck) : deck[i].kind = "Card"}) = 100
    /\ Count(WildUnplayed(FALSE), deck) = 4
    /\ Count(WildUnplayed(TRUE), deck) = 4

\* C16: the cards UnoDeck::new builds, before the shuffle and after it (the
\* deck a constructed game spreads over main deck and discard pile), are the
\* 108 cards of the standard deck.
DeckComposition ==
    (call.op = "new" /\ call.result = "Ok") =>
        /\ Composition(NewDeckCards)
        /\ Composition(main_deck \o discard_deck)

\* a game was built from a shuffled deck that is no longer in building order
ShuffledDeckReached ==
    /\ call.op = "new"
    /\ call.result = "Ok"
    /\ main_deck \o discard_deck # NewDeckCards

\* C19: in every game with n >= 1 players, after any sequence of try_next
\* calls, current_turn is a player index: 0 <= current_turn < n.
TurnInRange ==
    (phase # "none" /\ Len(player_hands) >= 1) =>
        current_turn \in 0..(Len(player_hands) - 1)

\* a Skip was accepted from the last player of the table, so the index wrapped
SkipWrapReached ==
    /\ Accepted
    /\ call.which_card.value = "Skip"
    /\ pre.current_turn + 2 >= call.players

\* C20: whether try_next accepts a play or rejects it, and with which error,
\* is a function of whos_turn, that player's hand and the top of the discard
\* pile alone; a card of the hand of a valid player that is playable on the
\* top of the discard pile is accepted and laid on the pile whoever
\* current_turn names.
TurnBlindAcceptance ==
    (call.op = "try_next" /\ call.whos_turn < Len(pre.player_hands)) =>
        LET hand == pre.player_hands[call.whos_turn + 1]
            held == \E i \in 1..Len(hand) : hand[i] = call.which_card
            playable == playable_on(call.which_card, Top(pre.discard_deck))
        IN  /\ call.result = IF ~held THEN "Cheating"
                             ELSE IF playable # "Ok" THEN "CardNotPlayable"
                             ELSE "Ok"
            /\ call.match_error = IF held /\ playable # "Ok" THEN playable
                                  ELSE "None"
            /\ call.result = "Ok" =>
                  /\ Top(discard_deck) = call.which_card
                  /\ Total(Self) = Total(pre)

\* a play was accepted from a player other than the one current_turn named
OutOfTurnAcceptedReached ==
    /\ Accepted
    /\ call.whos_turn # pre.current_turn
    /\ Top(discard_deck) = call.which_card

\* the cards forced draws took, read off the plays on the discard pile above
\* its starting card: 2 for every Draw2 and 4 for every draw-4 wild
ForcedSoFar(discard) ==
    2 * Cardinality({i \in 2..Len(discard) : discard[i].value = "Draw2"})
    + 4 * Cardinality({i \in 2..Len(discard) :
                          discard[i].kind = "WildPlayed" /\ discard[i].draw_4})

\* C18: in a game that starts fresh with at most 4 players and 7-card hands,
\* no sequence of try_next calls makes a forced draw abort.  The main deck
\* only loses the cards forced draws take, 2 for each Draw2 and 4 for each
\* draw-4 wild on the discard pile, so with 8 Draw2 cards and 4 draw-4 wilds
\* in the deck it is never found empty and nothing is ever recycled.
FreshDrawsNeverAbort ==
    /\ (call.op = "try_next" /\ call.result = "panic") => call.players = 0
    /\ Len(player_hands) >= 1 =>
          /\ phase = "playing"
          /\ Len(main_deck) = FULL_DECK_SIZE - 1
                                - HAND_CAPACITY * Len(player_hands)
                                - ForcedSoFar(discard_deck)
          /\ Len(main_deck) >= 4

\* a second Draw2 in a row was accepted in a fresh game
SecondDraw2Reached ==
    /\ Accepted
    /\ call.which_card.value = "Draw2"
    /\ Len(discard_deck) = 3
    /\ discard_deck[2].value = "Draw2"
    /\ Len(main_deck) = Len(pre.main_deck) - 2

====
